---- MODULE Spec2Model ----
(***************************************************************************)
(* Model of scripts/algolia.ts: the script that indexes the static docs    *)
(* HTML files into Algolia.  The script checks its configuration, loads    *)
(* the page front matters, generates the records of every eligible page    *)
(* (Promise.all over getRecords), enumerates the identifiers present in    *)
(* the remote index, saves the new records and deletes the stale ones.     *)
(*                                                                         *)
(* The record generator (htmlToAlgoliaRecord), the file system and the     *)
(* Algolia index are the script's environment: the files on disk and the   *)
(* generator's outcome per page are fixed in Init, the remote calls may    *)
(* fail nondeterministically.  The script may be run again after a         *)
(* completed run, on the same site, against the index the run left.        *)
(***************************************************************************)
EXTENDS Naturals, Sequences, FiniteSets, TLC

\* ------------------------------------------------------------------ bounds
\* Number of pages of the site (length of the front matter list).
MaxDocs == 2
\* Number of runs of the script in succession.
MaxRuns == 2

\* --------------------------------------------------------------- constants
\* The value of an unset environment variable or an absent property.
Undefined == "<undefined>"

\* Truthiness that takes only undefined for falsy.
TruthyUnlessUndefined(v) == v # Undefined

\* JavaScript truthiness of an optional string: undefined and '' are falsy.
Truthy(v) == v \notin {Undefined, ""}

\* The slugs of the site's pages, in front matter order.
SlugNames == <<"a", "b", "c", "d">>
Docs == 1..MaxDocs
Slug(i) == SlugNames[i]

\* The objectID the generator gives the record of a page that carries one.
ObjectIdNames == <<"a-1", "b-1", "c-1", "d-1">>

\* Identifiers the remote index may hold before the first run.
InitialIdPool == {"a-old", "c", "a-1"}

\* The identifier the index assigns to the n-th record saved without one
\* (autoGenerateObjectIDIfNotExist): fresh, never an identifier seen before.
AutoObjectID(n) == "auto-" \o ToString(n)

\* Values of the three required settings and of the skip toggle.
EnvValues == {Undefined, "", "set"}
SkipValues == {Undefined, "true"}

\* A record of page i with its own objectID, and one without.
RecordWithId(i) == [slug |-> Slug(i), objectID |-> ObjectIdNames[i]]
RecordWithoutId(i) == [slug |-> Slug(i), objectID |-> Undefined]

\* What htmlToAlgoliaRecord does for page i: it throws, or it resolves to
\* zero or more records.
Throws == [throws |-> TRUE, records |-> <<>>]
Resolves(rs) == [throws |-> FALSE, records |-> rs]
GeneratorKinds == {"throws", "none", "id", "noid", "both"}
GeneratorOutcome(kind, i) ==
    CASE kind = "throws" -> Throws
      [] kind = "none" -> Resolves(<<>>)
      [] kind = "id" -> Resolves(<<RecordWithId(i)>>)
      [] kind = "noid" -> Resolves(<<RecordWithoutId(i)>>)
      [] kind = "both" -> Resolves(<<RecordWithId(i), RecordWithoutId(i)>>)

\* The front matter of page i: eligible, draft, noindex, no title, empty title.
FrontMatterKinds ==
    { [title |-> "T", draft |-> FALSE, noindex |-> FALSE],
      [title |-> "T", draft |-> TRUE, noindex |-> FALSE],
      [title |-> "T", draft |-> FALSE, noindex |-> TRUE],
      [title |-> Undefined, draft |-> FALSE, noindex |-> FALSE],
      [title |-> "", draft |-> FALSE, noindex |-> FALSE] }
FrontMatter(kind, i) ==
    [slug |-> Slug(i), title |-> kind.title, draft |-> kind.draft,
     noindex |-> kind.noindex]

VARIABLES
    env,                \* process.env: the three settings and the skip toggle
    site,               \* what getDocsFrontMatter returns: front matter per page
    htmlFiles,          \* pages whose .html artifact is on disk
    generator,          \* outcome of htmlToAlgoliaRecord per page
    remote,             \* identifiers present in the Algolia index
    autoCounter,        \* number of identifiers the index has auto-assigned
    pc,                 \* position of the script
    run,                \* number of the current run
    pageFrontMatters,   \* indexAndUpload: the loaded front matters
    filtered,           \* generateAlogliaRecords: pages that passed the filter
    cursor,             \* position of .map(getRecords) in filtered
    promise,            \* state of the getRecords promise of each page
    result,             \* value of each fulfilled getRecords promise
    records,            \* indexAndUpload: the generated records
    existingRecordIds,  \* indexAndUpload: the enumerated identifiers
    newRecordIDs,       \* indexAndUpload: the identifiers saveObjects returned
    recordsToDelete,    \* indexAndUpload: the stale identifiers
    calls,              \* remote calls of this run, in order
    saveArgs,           \* the argument of every saveObjects call of this run
    deleteArgs,         \* the argument of every deleteObjects call of this run
    loads,              \* number of front matter loads of this run
    reads,              \* number of readFileSync calls per page in this run
    invoked,            \* number of generator invocations per page in this run
    errlog,             \* slugs named by console.error in this run
    prevRemote,         \* the index as the previous completed run left it
    autoAtStart         \* autoCounter when this run started

vars == <<env, site, htmlFiles, generator, remote, autoCounter, pc, run,
          pageFrontMatters, filtered, cursor, promise, result, records,
          existingRecordIds, newRecordIDs, recordsToDelete, calls, saveArgs,
          deleteArgs, loads, reads, invoked, errlog, prevRemote, autoAtStart>>

envVars == <<env, site, htmlFiles, generator>>
locals == <<pageFrontMatters, filtered, cursor, promise, result, records,
            existingRecordIds, newRecordIDs, recordsToDelete>>
history == <<calls, saveArgs, deleteArgs, loads, reads, invoked, errlog>>

\* ----------------------------------------------------------------- helpers
ALGOLIA_APP_ID == env.ALGOLIA_APP_ID
ALGOLIA_API_KEY == env.ALGOLIA_API_KEY
DOCS_INDEX_NAME == env.DOCS_INDEX_NAME
ALOGOLIA_SKIP_ON_ERROR == env.ALOGOLIA_SKIP_ON_ERROR = "true"

\* The three module-level checks: every required setting is truthy.
ConfigOk ==
    /\ Truthy(ALGOLIA_APP_ID)
    /\ Truthy(ALGOLIA_API_KEY)
    /\ Truthy(DOCS_INDEX_NAME)

\* A filter that forgets the title.
EligibleWithoutTitleCheck(frontMatter) ==
    /\ ~frontMatter.draft
    /\ ~frontMatter.noindex

\* The filter of generateAlogliaRecords.
Eligible(frontMatter) ==
    /\ ~frontMatter.draft
    /\ ~frontMatter.noindex
    /\ Truthy(frontMatter.title)

RECURSIVE FilterDocs(_, _)
FilterDocs(fms, i) ==
    IF i > Len(fms) THEN <<>>
    ELSE (IF Eligible(fms[i]) THEN <<i>> ELSE <<>>) \o FilterDocs(fms, i + 1)

\* records.flat(): the results of the filtered pages, in order.
RECURSIVE Flat(_, _, _)
Flat(res, idx, k) ==
    IF k > Len(idx) THEN <<>> ELSE res[idx[k]] \o Flat(res, idx, k + 1)

Range(s) == { s[k] : k \in 1..Len(s) }

\* saveObjects with autoGenerateObjectIDIfNotExist: the objectIDs of the
\* saved records, in order; n identifiers were auto-assigned before.
RECURSIVE AssignIds(_, _)
AssignIds(rs, n) ==
    IF rs = <<>> THEN <<>>
    ELSE IF Head(rs).objectID = Undefined
         THEN <<AutoObjectID(n + 1)>> \o AssignIds(Tail(rs), n + 1)
         ELSE <<Head(rs).objectID>> \o AssignIds(Tail(rs), n)

NumWithoutId(rs) == Cardinality({ k \in 1..Len(rs) : rs[k].objectID = Undefined })

\* A filter with the test inverted, and no filter at all.
StaleIdsInverted(existing, new) == { id \in existing : id \in new }
StaleIdsUnfiltered(existing, new) == existing

\* existingRecordIds.filter(id => !newRecordIDs.has(id))
StaleIds(existing, new) == { id \in existing : id \notin new }

Call(op, ok) == [op |-> op, ok |-> ok]

\* -------------------------------------------------------------------- Init
\* The pages a site is made of: front matter, artifact on disk or not,
\* generator outcome.  The artifact and the generator of a page the filter
\* drops are never looked at: they are there and yield a record.  The
\* generator of a page without artifact is never looked at either.
PageKinds ==
    { p \in [fm : FrontMatterKinds, file : BOOLEAN, gen : GeneratorKinds] :
        /\ ~Eligible(p.fm) => (p.file /\ p.gen = "id")
        /\ ~p.file => p.gen = "id" }

NoPromise == [i \in Docs |-> "none"]
NoResult == [i \in Docs |-> <<>>]
NoCount == [i \in Docs |-> 0]

Init ==
    /\ env \in [ALGOLIA_APP_ID : EnvValues, ALGOLIA_API_KEY : EnvValues,
                DOCS_INDEX_NAME : EnvValues, ALOGOLIA_SKIP_ON_ERROR : SkipValues]
    /\ \E pages \in [Docs -> PageKinds] :
        /\ site = [i \in Docs |-> FrontMatter(pages[i].fm, i)]
        /\ htmlFiles = { i \in Docs : pages[i].file }
        /\ generator = [i \in Docs |-> GeneratorOutcome(pages[i].gen, i)]
    /\ remote \in SUBSET InitialIdPool
    /\ autoCounter = 0
    /\ pc = "start"
    /\ run = 1
    /\ pageFrontMatters = <<>>
    /\ filtered = <<>>
    /\ cursor = 1
    /\ promise = NoPromise
    /\ result = NoResult
    /\ records = <<>>
    /\ existingRecordIds = {}
    /\ newRecordIDs = {}
    /\ recordsToDelete = {}
    /\ calls = <<>>
    /\ saveArgs = <<>>
    /\ deleteArgs = <<>>
    /\ loads = 0
    /\ reads = NoCount
    /\ invoked = NoCount
    /\ errlog = {}
    /\ prevRemote = {}
    /\ autoAtStart = 0

\* ----------------------------------------------------------------- actions
\* Lines 38-52: a required setting is missing; the module throws.
ConfigError ==
    /\ pc = "start"
    /\ ~ConfigOk
    /\ pc' = "fatal"
    /\ UNCHANGED <<envVars, remote, autoCounter, run, locals, history,
                   prevRemote, autoAtStart>>

\* Lines 44-57: the settings are there; the client and the index are
\* created and indexAndUpload is called.
Startup ==
    /\ pc = "start"
    /\ ConfigOk
    /\ pc' = "indexAndUpload"
    /\ UNCHANGED <<envVars, remote, autoCounter, run, locals, history,
                   prevRemote, autoAtStart>>

\* Line 61: the front matters of the site are loaded.
LoadFrontMatter ==
    /\ pc = "indexAndUpload"
    /\ pageFrontMatters' = [i \in 1..MaxDocs |-> site[i]]
    /\ loads' = loads + 1
    /\ pc' = "generate"
    /\ UNCHANGED <<envVars, remote, autoCounter, run, filtered, cursor, promise,
                   result, records, existingRecordIds, newRecordIDs,
                   recordsToDelete, calls, saveArgs, deleteArgs, reads, invoked,
                   errlog, prevRemote, autoAtStart>>

\* Lines 62, 107-111: generateAlogliaRecords filters the front matters.
GenerateAlogliaRecords ==
    /\ pc = "generate"
    /\ filtered' = FilterDocs(pageFrontMatters, 1)
    /\ cursor' = 1
    /\ pc' = IF Len(filtered') = 0 THEN "await" ELSE "map"
    /\ UNCHANGED <<envVars, remote, autoCounter, run, pageFrontMatters, promise,
                   result, records, existingRecordIds, newRecordIDs,
                   recordsToDelete, history, prevRemote, autoAtStart>>

\* A catch block that skips whatever the toggle says, and one that skips
\* without logging.
CatchAlwaysSkips(i) ==
    /\ promise' = [promise EXCEPT ![i] = "fulfilled"]
    /\ result' = [result EXCEPT ![i] = <<>>]
    /\ errlog' = errlog \cup {Slug(i)}

CatchSilently(i) ==
    /\ promise' = [promise EXCEPT ![i] =
                      IF ALOGOLIA_SKIP_ON_ERROR THEN "fulfilled" ELSE "rejected"]
    /\ result' = [result EXCEPT ![i] = <<>>]
    /\ errlog' = errlog

\* Lines 136-145: the catch block of getRecords for page i.  With the skip
\* toggle the error is logged and the page yields no record; without it
\* the promise of the page is rejected.
Catch(i) ==
    /\ promise' = [promise EXCEPT ![i] =
                      IF ALOGOLIA_SKIP_ON_ERROR THEN "fulfilled" ELSE "rejected"]
    /\ result' = [result EXCEPT ![i] = <<>>]
    /\ errlog' = IF ALOGOLIA_SKIP_ON_ERROR THEN errlog \cup {Slug(i)} ELSE errlog

\* A getRecords that is not async: with the skip toggle off its error is
\* thrown out of .map and the remaining pages are not processed.
GetRecordsThrowsOutOfMap ==
    /\ pc = "map"
    /\ cursor <= Len(filtered)
    /\ LET i == filtered[cursor] IN
        /\ reads' = [reads EXCEPT ![i] = @ + 1]
        /\ IF i \in htmlFiles
           THEN /\ invoked' = [invoked EXCEPT ![i] = @ + 1]
                /\ promise' = [promise EXCEPT ![i] = "pending"]
                /\ UNCHANGED <<result, errlog>>
                /\ cursor' = cursor + 1
           ELSE /\ Catch(i)
                /\ UNCHANGED invoked
                /\ cursor' = IF ALOGOLIA_SKIP_ON_ERROR THEN cursor + 1
                             ELSE Len(filtered) + 1
    /\ pc' = IF cursor' > Len(filtered) THEN "await" ELSE "map"
    /\ UNCHANGED <<envVars, remote, autoCounter, run, pageFrontMatters, filtered,
                   records, existingRecordIds, newRecordIDs, recordsToDelete,
                   calls, saveArgs, deleteArgs, loads, prevRemote, autoAtStart>>

\* Lines 112, 118-133: .map(getRecords) calls getRecords for the next page.
\* The call runs up to its await: the artifact is read, and if it is there
\* the generator is invoked; a missing artifact throws into the catch block.
GetRecords ==
    /\ pc = "map"
    /\ cursor <= Len(filtered)
    /\ LET i == filtered[cursor] IN
        /\ reads' = [reads EXCEPT ![i] = @ + 1]
        /\ IF i \in htmlFiles
           THEN /\ invoked' = [invoked EXCEPT ![i] = @ + 1]
                /\ promise' = [promise EXCEPT ![i] = "pending"]
                /\ UNCHANGED <<result, errlog>>
           ELSE /\ Catch(i)
                /\ UNCHANGED invoked
    /\ cursor' = cursor + 1
    /\ pc' = IF cursor' > Len(filtered) THEN "await" ELSE "map"
    /\ UNCHANGED <<envVars, remote, autoCounter, run, pageFrontMatters, filtered,
                   records, existingRecordIds, newRecordIDs, recordsToDelete,
                   calls, saveArgs, deleteArgs, loads, prevRemote, autoAtStart>>

\* Lines 124-135: the generator of page i settles; getRecords returns its
\* records, or its error goes to the catch block.
GeneratorSettles(i) ==
    /\ pc = "await"
    /\ promise[i] = "pending"
    /\ IF generator[i].throws
       THEN Catch(i)
       ELSE /\ promise' = [promise EXCEPT ![i] = "fulfilled"]
            /\ result' = [result EXCEPT ![i] = generator[i].records]
            /\ UNCHANGED errlog
    /\ UNCHANGED <<envVars, remote, autoCounter, pc, run, pageFrontMatters,
                   filtered, cursor, records, existingRecordIds, newRecordIDs,
                   recordsToDelete, calls, saveArgs, deleteArgs, loads, reads,
                   invoked, prevRemote, autoAtStart>>

\* Line 107: Promise.all rejects as soon as one getRecords promise is
\* rejected; indexAndUpload rejects with it and the process ends.
PromiseAllRejects ==
    /\ pc = "await"
    /\ \E i \in Range(filtered) : promise[i] = "rejected"
    /\ pc' = "rejected"
    /\ UNCHANGED <<envVars, remote, autoCounter, run, locals, history,
                   prevRemote, autoAtStart>>

\* An indexAndUpload that saves without enumerating the index first.
PromiseAllResolvesThenSaves ==
    /\ pc = "await"
    /\ \A i \in Range(filtered) : promise[i] = "fulfilled"
    /\ records' = Flat(result, filtered, 1)
    /\ pc' = "save"
    /\ UNCHANGED <<envVars, remote, autoCounter, run, pageFrontMatters, filtered,
                   cursor, promise, result, existingRecordIds, newRecordIDs,
                   recordsToDelete, history, prevRemote, autoAtStart>>

\* Lines 107-115, 62-63: every getRecords promise is fulfilled; the records
\* are flattened.
PromiseAllResolves ==
    /\ pc = "await"
    /\ \A i \in Range(filtered) : promise[i] = "fulfilled"
    /\ records' = Flat(result, filtered, 1)
    /\ pc' = "browse"
    /\ UNCHANGED <<envVars, remote, autoCounter, run, pageFrontMatters, filtered,
                   cursor, promise, result, existingRecordIds, newRecordIDs,
                   recordsToDelete, history, prevRemote, autoAtStart>>

\* Lines 64, 92-104: fetchExistingRecordIds browses the index.
BrowseObjects ==
    /\ pc = "browse"
    /\ calls' = Append(calls, Call("browseObjects", TRUE))
    /\ existingRecordIds' = remote
    /\ pc' = "save"
    /\ UNCHANGED <<envVars, remote, autoCounter, run, pageFrontMatters, filtered,
                   cursor, promise, result, records, newRecordIDs,
                   recordsToDelete, saveArgs, deleteArgs, loads, reads, invoked,
                   errlog, prevRemote, autoAtStart>>

\* Lines 64, 95: browseObjects fails; the error propagates.
BrowseObjectsFails ==
    /\ pc = "browse"
    /\ calls' = Append(calls, Call("browseObjects", FALSE))
    /\ pc' = "rejected"
    /\ UNCHANGED <<envVars, remote, autoCounter, run, locals, saveArgs,
                   deleteArgs, loads, reads, invoked, errlog, prevRemote,
                   autoAtStart>>

\* Lines 71-82: the records are saved, the index assigns an identifier to
\* every record without one, and the stale identifiers are computed; with
\* none the run is over.
SaveObjects ==
    /\ pc = "save"
    /\ calls' = Append(calls, Call("saveObjects", TRUE))
    /\ saveArgs' = Append(saveArgs, records)
    /\ LET objectIDs == AssignIds(records, autoCounter) IN
        /\ remote' = remote \cup Range(objectIDs)
        /\ newRecordIDs' = Range(objectIDs)
    /\ autoCounter' = autoCounter + NumWithoutId(records)
    /\ recordsToDelete' = StaleIds(existingRecordIds, newRecordIDs')
    /\ pc' = IF recordsToDelete' = {} THEN "done" ELSE "delete"
    /\ UNCHANGED <<envVars, run, pageFrontMatters, filtered, cursor, promise,
                   result, records, existingRecordIds, deleteArgs, loads, reads,
                   invoked, errlog, prevRemote, autoAtStart>>

\* A failed saveObjects whose error is swallowed: the run goes on to delete.
SaveObjectsFailsAndGoesOn ==
    /\ pc = "save"
    /\ calls' = Append(calls, Call("saveObjects", FALSE))
    /\ saveArgs' = Append(saveArgs, records)
    /\ recordsToDelete' = existingRecordIds
    /\ pc' = "delete"
    /\ UNCHANGED <<envVars, remote, autoCounter, run, pageFrontMatters, filtered,
                   cursor, promise, result, records, existingRecordIds,
                   newRecordIDs, deleteArgs, loads, reads, invoked, errlog,
                   prevRemote, autoAtStart>>

\* Line 71: saveObjects fails (one batch of at most 10000 records: nothing
\* is saved); the error propagates.
SaveObjectsFails ==
    /\ pc = "save"
    /\ calls' = Append(calls, Call("saveObjects", FALSE))
    /\ saveArgs' = Append(saveArgs, records)
    /\ pc' = "rejected"
    /\ UNCHANGED <<envVars, remote, autoCounter, run, locals, deleteArgs, loads,
                   reads, invoked, errlog, prevRemote, autoAtStart>>

\* A delete of everything that was enumerated.
DeleteObjectsUnfiltered ==
    /\ pc = "delete"
    /\ calls' = Append(calls, Call("deleteObjects", TRUE))
    /\ deleteArgs' = Append(deleteArgs, existingRecordIds)
    /\ remote' = remote \ existingRecordIds
    /\ pc' = "done"
    /\ UNCHANGED <<envVars, autoCounter, run, locals, saveArgs, loads, reads,
                   invoked, errlog, prevRemote, autoAtStart>>

\* Lines 83-89: the stale identifiers are deleted.
DeleteObjects ==
    /\ pc = "delete"
    /\ calls' = Append(calls, Call("deleteObjects", TRUE))
    /\ deleteArgs' = Append(deleteArgs, recordsToDelete)
    /\ remote' = remote \ recordsToDelete
    /\ pc' = "done"
    /\ UNCHANGED <<envVars, autoCounter, run, locals, saveArgs, loads, reads,
                   invoked, errlog, prevRemote, autoAtStart>>

\* Line 84: deleteObjects fails; the error propagates.
DeleteObjectsFails ==
    /\ pc = "delete"
    /\ calls' = Append(calls, Call("deleteObjects", FALSE))
    /\ deleteArgs' = Append(deleteArgs, recordsToDelete)
    /\ pc' = "rejected"
    /\ UNCHANGED <<envVars, remote, autoCounter, run, locals, saveArgs, loads,
                   reads, invoked, errlog, prevRemote, autoAtStart>>

\* The script is run again after a completed run: same environment, same
\* site, the index as the run left it.
RunAgain ==
    /\ pc = "done"
    /\ run < MaxRuns
    /\ run' = run + 1
    /\ pc' = "start"
    /\ prevRemote' = remote
    /\ autoAtStart' = autoCounter
    /\ pageFrontMatters' = <<>>
    /\ filtered' = <<>>
    /\ cursor' = 1
    /\ promise' = NoPromise
    /\ result' = NoResult
    /\ records' = <<>>
    /\ existingRecordIds' = {}
    /\ newRecordIDs' = {}
    /\ recordsToDelete' = {}
    /\ calls' = <<>>
    /\ saveArgs' = <<>>
    /\ deleteArgs' = <<>>
    /\ loads' = 0
    /\ reads' = NoCount
    /\ invoked' = NoCount
    /\ errlog' = {}
    /\ UNCHANGED <<envVars, remote, autoCounter>>

Next ==
    \/ ConfigError
    \/ Startup
    \/ LoadFrontMatter
    \/ GenerateAlogliaRecords
    \/ GetRecords
    \/ \E i \in Docs : GeneratorSettles(i)
    \/ PromiseAllRejects
    \/ PromiseAllResolves
    \/ BrowseObjects
    \/ BrowseObjectsFails
    \/ SaveObjects
    \/ SaveObjectsFails
    \/ DeleteObjects
    \/ DeleteObjectsFails
    \/ RunAgain

Spec == Init /\ [][Next]_vars

\* ------------------------------------------------- what the site should give
\* Page i passes the filter and its generation succeeds / fails.
Produces(i) == Eligible(site[i]) /\ i \in htmlFiles /\ ~generator[i].throws
Failing(i) == Eligible(site[i]) /\ (i \notin htmlFiles \/ generator[i].throws)

\* The records of the pages whose generation succeeds, in page order.
RECURSIVE RecordsFrom(_)
RecordsFrom(i) ==
    IF i > MaxDocs THEN <<>>
    ELSE (IF Produces(i) THEN generator[i].records ELSE <<>>) \o RecordsFrom(i + 1)
ExpectedRecords == RecordsFrom(1)

\* The identifiers records carry themselves.
CarriedIds(rs) == { rs[k].objectID : k \in 1..Len(rs) } \ {Undefined}

\* The identifiers the index auto-assigned after the a-th up to the b-th.
AutoIdsBetween(a, b) == { AutoObjectID(n) : n \in (a + 1)..b }

OpsOf(cs) == [k \in 1..Len(cs) |-> cs[k].op]
Called(op) == \E k \in 1..Len(calls) : calls[k].op = op
TimesCalled(op) == Cardinality({ k \in 1..Len(calls) : calls[k].op = op })
SkipOff == ~ALOGOLIA_SKIP_ON_ERROR

\* ------------------------------------------------------------------ claims
\* C1: after a run that completes without error the identifiers in the
\* remote index are exactly the identifiers of the records generated from
\* the eligible pages of that run (the ones the records carry and the ones
\* assigned to this run's records without identifier); nothing else that
\* was in the index before remains.
C1_IndexEqualsGenerated ==
    pc = "done" =>
        /\ remote = CarriedIds(ExpectedRecords)
                        \cup AutoIdsBetween(autoAtStart, autoCounter)
        /\ autoCounter - autoAtStart = NumWithoutId(ExpectedRecords)

C1_Witness ==
    /\ pc = "done"
    /\ run = 1
    /\ existingRecordIds \ remote # {}
    /\ CarriedIds(ExpectedRecords) # {}
    /\ NumWithoutId(ExpectedRecords) > 0

\* C2 as stated: a second run in succession on the same site deletes no
\* identifier and leaves the identifier set as the first run left it, also
\* when identifiers are auto-assigned.
C2_SecondRunChangesNothing ==
    (run >= 2 /\ pc = "done") => (deleteArgs = <<>> /\ remote = prevRemote)

\* C2 amended: a run in succession on the same site deletes exactly the
\* identifiers the previous run had auto-assigned and replaces them by as
\* many fresh ones; when every record carries its own identifier it deletes
\* nothing and leaves the identifier set as it was.
C2_IdempotentOnCarriedIds ==
    (run >= 2 /\ pc = "done") =>
        /\ recordsToDelete = prevRemote \cap AutoIdsBetween(0, autoAtStart)
        /\ remote = (prevRemote \ recordsToDelete)
                        \cup AutoIdsBetween(autoAtStart, autoCounter)
        /\ Cardinality(remote) = Cardinality(prevRemote)
        /\ NumWithoutId(ExpectedRecords) = 0 =>
              (deleteArgs = <<>> /\ remote = prevRemote)

C2_Witness ==
    /\ run = 2
    /\ pc = "done"
    /\ NumWithoutId(ExpectedRecords) = 0
    /\ Cardinality(CarriedIds(ExpectedRecords)) = 2
    /\ remote = prevRemote

\* C3: with the skip toggle off, a page whose artifact is missing or whose
\* generation fails aborts the run and the index is left untouched: no
\* remote call is made, saveObjects and deleteObjects are never called.
C3_AbortLeavesIndexUntouched ==
    /\ []((SkipOff /\ \E i \in Docs : Failing(i)) =>
            /\ calls = <<>>
            /\ saveArgs = <<>>
            /\ deleteArgs = <<>>
            /\ pc \in {"start", "fatal", "indexAndUpload", "generate", "map",
                       "await", "rejected"}
            /\ (pc = "await" /\ \A i \in Range(filtered) : promise[i] # "pending")
                  => ~ENABLED PromiseAllResolves)
    /\ [][(SkipOff /\ \E i \in Docs : Failing(i)) => remote' = remote]_vars

C3_Witness ==
    /\ SkipOff
    /\ pc = "rejected"
    /\ \E i \in Docs : Failing(i) /\ i \in htmlFiles
    /\ \E j \in Docs : promise[j] = "fulfilled" /\ result[j] # <<>>
    /\ remote # {}

\* C4: with the skip toggle on, a failing page never aborts the run: it
\* yields no record, an error naming its slug is logged, and the records of
\* all the other eligible pages are what saveObjects is given.
C4_SkipKeepsOtherRecords ==
    ALOGOLIA_SKIP_ON_ERROR =>
        /\ \A i \in Docs : promise[i] # "rejected"
        /\ pc = "rejected" => (calls # <<>> /\ ~calls[Len(calls)].ok)
        /\ \A i \in Docs :
              (Failing(i) /\ promise[i] = "fulfilled") =>
                  (result[i] = <<>> /\ Slug(i) \in errlog)
        /\ pc \in {"browse", "save", "delete", "done"} =>
              /\ records = ExpectedRecords
              /\ errlog = { Slug(i) : i \in { j \in Docs : Failing(j) } }
        /\ \A k \in 1..Len(saveArgs) : saveArgs[k] = ExpectedRecords

C4_Witness ==
    /\ ALOGOLIA_SKIP_ON_ERROR
    /\ \E i \in Docs : Failing(i) /\ Slug(i) \in errlog
    /\ Called("saveObjects")
    /\ saveArgs[1] # <<>>

\* C5: a page that is draft, noindex or without title (absent or empty) is
\* never passed to the generator, its artifact is never read and none of
\* its records is uploaded.
C5_FilteredPagesUntouched ==
    \A i \in Docs :
        ~(~site[i].draft /\ ~site[i].noindex /\ site[i].title \notin {Undefined, ""}) =>
            /\ reads[i] = 0
            /\ invoked[i] = 0
            /\ promise[i] = "none"
            /\ \A k \in 1..Len(saveArgs) :
                  \A n \in 1..Len(saveArgs[k]) : saveArgs[k][n].slug # Slug(i)
            /\ \A k \in 1..Len(records) : records[k].slug # Slug(i)

C5_Witness ==
    /\ pc = "done"
    /\ site[1].title = ""
    /\ 1 \in htmlFiles
    /\ saveArgs # <<>>
    /\ saveArgs[1] # <<>>

\* C6: the generator is invoked exactly once for each page that is not
\* draft, not noindex, titled and has its artifact, whatever happens to the
\* other pages and whatever the skip toggle; never twice for a page.
C6_GeneratorOncePerPage ==
    /\ \A i \in Docs : invoked[i] <= 1
    /\ pc \in {"await", "rejected", "browse", "save", "delete", "done"} =>
          \A i \in Docs :
              invoked[i] = IF Eligible(site[i]) /\ i \in htmlFiles THEN 1 ELSE 0

C6_Witness ==
    /\ SkipOff
    /\ pc = "rejected"
    /\ Eligible(site[1])
    /\ 1 \notin htmlFiles
    /\ invoked[2] = 1

C8_MissingConfigIsFatal ==
    (\E name \in {"ALGOLIA_APP_ID", "ALGOLIA_API_KEY", "DOCS_INDEX_NAME"} :
          env[name] \in {Undefined, ""}) =>
        /\ pc \in {"start", "fatal"}
        /\ loads = 0
        /\ pageFrontMatters = <<>>
        /\ \A i \in Docs : reads[i] = 0 /\ invoked[i] = 0
        /\ calls = <<>>
        /\ saveArgs = <<>>
        /\ deleteArgs = <<>>

C8_Witness ==
    /\ pc = "fatal"
    /\ env.ALGOLIA_APP_ID = "set"
    /\ env.ALGOLIA_API_KEY = "set"
    /\ env.DOCS_INDEX_NAME = ""

\* C9: a remote error is fatal and not retried: each remote operation is
\* attempted at most once in a run and nothing remote follows a failed
\* one; a failed upload is followed by no delete, a failed enumeration by
\* no upload and no delete.
C9_RemoteErrorIsFatal ==
    /\ \A op \in {"browseObjects", "saveObjects", "deleteObjects"} :
          TimesCalled(op) <= 1
    /\ \A k \in 1..Len(calls) :
          ~calls[k].ok => (k = Len(calls) /\ pc = "rejected")
    /\ (\E k \in 1..Len(calls) : calls[k].op = "saveObjects" /\ ~calls[k].ok) =>
          (~Called("deleteObjects") /\ deleteArgs = <<>>)
    /\ (\E k \in 1..Len(calls) : calls[k].op = "browseObjects" /\ ~calls[k].ok) =>
          /\ ~Called("saveObjects") /\ ~Called("deleteObjects")
          /\ saveArgs = <<>> /\ deleteArgs = <<>>

C9_Witness ==
    /\ pc = "rejected"
    /\ Len(calls) = 2
    /\ ~calls[2].ok
    /\ calls[2].op = "saveObjects"
    /\ records # <<>>
    /\ existingRecordIds \ CarriedIds(records) # {}

\* C10: deleteObjects is given exactly the enumerated identifiers minus the
\* identifiers the upload of this run returned: nothing saved in this run
\* is deleted, everything deleted was enumerated, and deleteObjects is not
\* called when the difference is empty.  For pages [a titled, b draft], an
\* index {a-old, c} and a producing a-1, exactly {a-old, c} is deleted and
\* the index ends as {a-1}.
C10_DeletesExactlyTheDifference ==
    /\ \A k \in 1..Len(deleteArgs) :
          /\ deleteArgs[k] = existingRecordIds \ newRecordIDs
          /\ deleteArgs[k] # {}
          /\ Called("saveObjects")
    /\ Len(deleteArgs) <= 1
    /\ Called("deleteObjects") <=> deleteArgs # <<>>
    /\ pc = "done" =>
          /\ newRecordIDs \subseteq remote
          /\ newRecordIDs = Range(AssignIds(ExpectedRecords, autoAtStart))
          /\ deleteArgs = <<>> <=> existingRecordIds \ newRecordIDs = {}
          /\ remote \cap (existingRecordIds \ newRecordIDs) = {}
    /\ ( /\ pc = "done"
         /\ Eligible(site[1]) /\ 1 \in htmlFiles
         /\ generator[1] = Resolves(<<[slug |-> "a", objectID |-> "a-1"]>>)
         /\ \A i \in Docs \ {1} : site[i].draft
         /\ existingRecordIds = {"a-old", "c"} )
       => (deleteArgs = <<{"a-old", "c"}>> /\ remote = {"a-1"})

C10_Witness ==
    /\ pc = "done"
    /\ run = 1
    /\ site[1] = [slug |-> "a", title |-> "T", draft |-> FALSE, noindex |-> FALSE]
    /\ generator[1] = Resolves(<<[slug |-> "a", objectID |-> "a-1"]>>)
    /\ \A i \in Docs \ {1} : site[i].draft
    /\ existingRecordIds = {"a-old", "c"}
    /\ deleteArgs = <<{"a-old", "c"}>>
    /\ remote = {"a-1"}

====
